---- MODULE Spec2Model ----
(***************************************************************************)
(* Land Truth Registry API (backend/main.py, models.py, schemas.py).       *)
(*                                                                         *)
(* The committed contents of the three tables are the shared state.  Each  *)
(* request runs in its own session.  Every handler but create_asset does   *)
(* all its writes in one commit and is one step; create_asset is two: the  *)
(* flush of the Asset row, which stays inside the session's transaction    *)
(* (sess), and the commit.  resp is the response on its way to the client. *)
(* Floats are modelled by integers, datetimes by ticks of the server clock.*)
(***************************************************************************)
EXTENDS Integers, Sequences, FiniteSets, TLC

\* ---- bounds of the model ----
MaxSessions == 2
MaxAssets == 2
MaxEvidence == 2
MaxClock == 1

\* ---- program constants ----
NameMaxLen == 255
OwnerMaxLen == 255
LatMin == -90
LatMax == 90
LonMin == -180
LonMax == 180
EvidenceTypeMaxLen == 100
DefaultSkip == 0
DefaultLimit == 100
GenesisReason == "Genesis Creation"

HTTP_200_OK == 200
HTTP_201_CREATED == 201
HTTP_404_NOT_FOUND == 404
HTTP_422_UNPROCESSABLE == 422
HTTP_500_SERVER_ERROR == 500

VARIABLES assets, asset_versions, evidence, next_id, clock, sess, resp

vars == <<assets, asset_versions, evidence, next_id, clock, sess, resp>>
store == <<assets, asset_versions, evidence>>

Null == [id |-> 0]

RECURSIVE Repeat(_, _)
Repeat(s, n) == IF n = 0 THEN "" ELSE s \o Repeat(s, n - 1)

\* ---- request bodies the clients may send ----
LongString == Repeat("x", NameMaxLen + 1)

ValidAsset ==
    [name |-> "Plot A", owner |-> "Owner X", location_lat |-> LatMin,
     location_lon |-> LonMax, size_hectares |-> 5]

\* The valid body, and bodies that break one constraint each.
AssetInputs ==
    {ValidAsset,
     [ValidAsset EXCEPT !.name = ""], [ValidAsset EXCEPT !.name = LongString],
     [ValidAsset EXCEPT !.owner = ""], [ValidAsset EXCEPT !.owner = LongString],
     [ValidAsset EXCEPT !.location_lat = LatMin - 1],
     [ValidAsset EXCEPT !.location_lat = LatMax + 1],
     [ValidAsset EXCEPT !.location_lon = LonMin - 1],
     [ValidAsset EXCEPT !.location_lon = LonMax + 1],
     [ValidAsset EXCEPT !.size_hectares = 0],
     [ValidAsset EXCEPT !.size_hectares = -1]}

ValidEvidence(asset_id) ==
    [asset_id |-> asset_id, evidence_type |-> "Photo", description |-> "fence built",
     gps_lat |-> LatMax, gps_lon |-> LonMin]

EvidenceInputs ==
    {ValidEvidence(asset_id) : asset_id \in 0..(MaxAssets + 1)} \cup
    {[ValidEvidence(1) EXCEPT !.evidence_type = ""],
     [ValidEvidence(1) EXCEPT !.description = ""],
     [ValidEvidence(1) EXCEPT !.gps_lat = LatMax + 1],
     [ValidEvidence(1) EXCEPT !.gps_lon = LonMin - 1]}

\* Path parameters of GET /assets/{asset_id}.
AssetIds == 1..(MaxAssets + 1)

\* (skip, limit) query parameters: the defaults, a window inside the rows, an
\* offset past the end, and a negative value for each.
PageInputs ==
    {<<DefaultSkip, DefaultLimit>>, <<1, 1>>, <<MaxAssets + MaxEvidence, DefaultLimit>>,
     <<-1, DefaultLimit>>, <<DefaultSkip, -1>>}

\* AssetCreate with size_hectares declared ge=0 instead of gt=0.
AssetCreate_SizeGe(asset) ==
    /\ Len(asset.name) >= 1 /\ Len(asset.name) <= NameMaxLen
    /\ Len(asset.owner) >= 1 /\ Len(asset.owner) <= OwnerMaxLen
    /\ asset.location_lat >= LatMin /\ asset.location_lat <= LatMax
    /\ asset.location_lon >= LonMin /\ asset.location_lon <= LonMax
    /\ asset.size_hectares >= 0

AssetCreate(asset) ==
    /\ Len(asset.name) >= 1 /\ Len(asset.name) <= NameMaxLen
    /\ Len(asset.owner) >= 1 /\ Len(asset.owner) <= OwnerMaxLen
    /\ asset.location_lat >= LatMin /\ asset.location_lat <= LatMax
    /\ asset.location_lon >= LonMin /\ asset.location_lon <= LonMax
    /\ asset.size_hectares > 0

EvidenceCreate(ev) ==
    /\ ev.asset_id > 0
    /\ Len(ev.evidence_type) >= 1 /\ Len(ev.evidence_type) <= EvidenceTypeMaxLen
    /\ Len(ev.description) >= 1
    /\ ev.gps_lat >= LatMin /\ ev.gps_lat <= LatMax
    /\ ev.gps_lon >= LonMin /\ ev.gps_lon <= LonMax

\* ---- models.py: rows ----
Asset(id, asset, now) ==
    [id |-> id, name |-> asset.name, owner |-> asset.owner,
     location_lat |-> asset.location_lat, location_lon |-> asset.location_lon,
     size_hectares |-> asset.size_hectares, created_at |-> now]

AssetVersion(id, asset_id, name, owner, change_reason, now) ==
    [id |-> id, asset_id |-> asset_id, name |-> name, owner |-> owner,
     change_reason |-> change_reason, changed_at |-> now]

Evidence(id, ev, now) ==
    [id |-> id, asset_id |-> ev.asset_id, evidence_type |-> ev.evidence_type,
     description |-> ev.description, gps_lat |-> ev.gps_lat,
     gps_lon |-> ev.gps_lon, timestamp |-> now]

\* ---- queries ----
\* A query without ORDER BY returns the matching rows in an order the store
\* chooses.
Orderings(S) ==
    {f \in [1..Cardinality(S) -> S] : \A i, j \in 1..Cardinality(S) : i # j => f[i] # f[j]}

\* db.query(Asset).filter(Asset.id == asset_id).first()
QueryAsset(asset_id) ==
    IF \E a \in assets : a.id = asset_id
    THEN CHOOSE a \in assets : a.id = asset_id
    ELSE Null

VersionsOf(asset_id) == {v \in asset_versions : v.asset_id = asset_id}
EvidenceOf(asset_id) == {e \in evidence : e.asset_id = asset_id}

\* The response to a request, and "no response under way".
Response(op, status, body) == [op |-> op, status |-> status, body |-> body]
NoResponse == Response("none", 0, Null)

\* A session whose transaction holds a flushed Asset row.
Session(asset, db_asset) == [asset |-> asset, db_asset |-> db_asset]

Init ==
    /\ assets = {}
    /\ asset_versions = {}
    /\ evidence = {}
    /\ next_id = [assets |-> 1, asset_versions |-> 1, evidence |-> 1]
    /\ clock = 0
    /\ sess = {}
    /\ resp = NoResponse

\* The response leaves the server.  Handler steps are atomic, so the model
\* takes them one after the other, each after the previous response left.
Respond ==
    /\ resp # NoResponse
    /\ resp' = NoResponse
    /\ UNCHANGED <<assets, asset_versions, evidence, next_id, clock, sess>>

\* The server clock advances between statements.
Tick ==
    /\ resp = NoResponse
    /\ clock < MaxClock
    /\ clock' = clock + 1
    /\ UNCHANGED <<assets, asset_versions, evidence, next_id, sess, resp>>

\* ---- POST /assets/ : create_asset ----
\* The request body fails AssetCreate validation: FastAPI answers 422 and the
\* handler body never runs.
CreateAssetInvalid(asset) ==
    /\ resp = NoResponse
    /\ ~AssetCreate(asset)
    /\ resp' = Response("create_asset", HTTP_422_UNPROCESSABLE, Null)
    /\ UNCHANGED <<assets, asset_versions, evidence, next_id, clock, sess>>

\* create_asset with db.commit() in place of db.flush(): the Asset row is
\* committed on its own.
CreateAssetFlush_Commits(asset) ==
    /\ resp = NoResponse
    /\ AssetCreate(asset)
    /\ Cardinality(sess) < MaxSessions
    /\ next_id.assets <= MaxAssets
    /\ sess' = sess \cup {Session(asset, Asset(next_id.assets, asset, clock))}
    /\ assets' = assets \cup {Asset(next_id.assets, asset, clock)}
    /\ next_id' = [next_id EXCEPT !.assets = @ + 1]
    /\ UNCHANGED <<asset_versions, evidence, clock, resp>>

\* Lines 57-65, db.add(db_asset); db.flush(): the INSERT runs inside the
\* session's open transaction and the id is assigned; nothing is committed.
CreateAssetFlush(asset) ==
    /\ resp = NoResponse
    /\ AssetCreate(asset)
    /\ Cardinality(sess) < MaxSessions
    /\ next_id.assets <= MaxAssets
    /\ sess' = sess \cup {Session(asset, Asset(next_id.assets, asset, clock))}
    /\ next_id' = [next_id EXCEPT !.assets = @ + 1]
    /\ UNCHANGED <<assets, asset_versions, evidence, clock, resp>>

\* db.flush() raises: the exception leaves the handler, nothing was written.
CreateAssetFlushFail(asset) ==
    /\ resp = NoResponse
    /\ AssetCreate(asset)
    /\ resp' = Response("create_asset", HTTP_500_SERVER_ERROR, Null)
    /\ UNCHANGED <<assets, asset_versions, evidence, next_id, clock, sess>>

\* The genesis row with the name and owner arguments swapped.
GenesisVersion_Swapped(id, db_asset, asset, now) ==
    AssetVersion(id, db_asset.id, asset.owner, asset.name, GenesisReason, now)

\* The genesis row of lines 68-73.
GenesisVersion(id, db_asset, asset, now) ==
    AssetVersion(id, db_asset.id, asset.name, asset.owner, GenesisReason, now)

\* db.refresh(obj): reload the row from the table.
Refresh(table, obj) == CHOOSE r \in table : r.id = obj.id

\* create_asset without db.add(genesis_version): only the Asset is committed.
CreateAssetCommit_NoGenesis(s) ==
    /\ resp = NoResponse
    /\ s \in sess
    /\ assets' = assets \cup {s.db_asset}
    /\ resp' = Response("create_asset", HTTP_201_CREATED, Refresh(assets', s.db_asset))
    /\ sess' = sess \ {s}
    /\ UNCHANGED <<asset_versions, evidence, next_id, clock>>

\* Lines 68-78, db.add(genesis_version); db.commit(); db.refresh(db_asset);
\* return.  commit() flushes the pending AssetVersion INSERT and commits both
\* rows.  changed_at is the server clock at the INSERT.
CreateAssetCommit(s) ==
    /\ resp = NoResponse
    /\ s \in sess
    /\ asset_versions' = asset_versions \cup
          {GenesisVersion(next_id.asset_versions, s.db_asset, s.asset, clock)}
    /\ assets' = assets \cup {s.db_asset}
    /\ next_id' = [next_id EXCEPT !.asset_versions = @ + 1]
    /\ resp' = Response("create_asset", HTTP_201_CREATED, Refresh(assets', s.db_asset))
    /\ sess' = sess \ {s}
    /\ UNCHANGED <<evidence, clock>>

\* A failing genesis insert in a session that commits each statement on its
\* own: the Asset row stays.
CreateAssetCommitFail_KeepsAsset(s) ==
    /\ resp = NoResponse
    /\ s \in sess
    /\ assets' = assets \cup {s.db_asset}
    /\ resp' = Response("create_asset", HTTP_500_SERVER_ERROR, Null)
    /\ sess' = sess \ {s}
    /\ UNCHANGED <<asset_versions, evidence, next_id, clock>>

\* The AssetVersion INSERT or the COMMIT raises: the exception leaves the
\* handler and the session's transaction ends without a commit.
CreateAssetCommitFail(s) ==
    /\ resp = NoResponse
    /\ s \in sess
    /\ resp' = Response("create_asset", HTTP_500_SERVER_ERROR, Null)
    /\ sess' = sess \ {s}
    /\ UNCHANGED <<assets, asset_versions, evidence, next_id, clock>>

\* The first step of a create_asset request carrying body `asset`.
create_asset(asset) ==
    \/ CreateAssetInvalid(asset)
    \/ CreateAssetFlush(asset)
    \/ CreateAssetFlushFail(asset)

\* ---- GET /assets/{asset_id} : get_asset ----
GetAssetFound(asset_id) ==
    /\ resp = NoResponse
    /\ QueryAsset(asset_id) # Null
    /\ resp' = Response("get_asset", HTTP_200_OK, QueryAsset(asset_id))
    /\ UNCHANGED <<assets, asset_versions, evidence, next_id, clock, sess>>

GetAssetNotFound(asset_id) ==
    /\ resp = NoResponse
    /\ QueryAsset(asset_id) = Null
    /\ resp' = Response("get_asset", HTTP_404_NOT_FOUND, Null)
    /\ UNCHANGED <<assets, asset_versions, evidence, next_id, clock, sess>>

get_asset(asset_id) == GetAssetFound(asset_id) \/ GetAssetNotFound(asset_id)

\* ---- POST /evidence/ : create_evidence ----
CreateEvidenceInvalid(ev) ==
    /\ resp = NoResponse
    /\ ~EvidenceCreate(ev)
    /\ resp' = Response("create_evidence", HTTP_422_UNPROCESSABLE, Null)
    /\ UNCHANGED <<assets, asset_versions, evidence, next_id, clock, sess>>

\* Lines 111-116: the asset lookup finds nothing.
CreateEvidenceNotFound(ev) ==
    /\ resp = NoResponse
    /\ EvidenceCreate(ev)
    /\ QueryAsset(ev.asset_id) = Null
    /\ resp' = Response("create_evidence", HTTP_404_NOT_FOUND, Null)
    /\ UNCHANGED <<assets, asset_versions, evidence, next_id, clock, sess>>

\* create_evidence without the asset lookup of lines 111-116.
CreateEvidenceCommit_NoLookup(ev) ==
    /\ resp = NoResponse
    /\ EvidenceCreate(ev)
    /\ next_id.evidence <= MaxEvidence
    /\ evidence' = evidence \cup {Evidence(next_id.evidence, ev, clock)}
    /\ next_id' = [next_id EXCEPT !.evidence = @ + 1]
    /\ resp' = Response("create_evidence", HTTP_201_CREATED,
                        Refresh(evidence', [id |-> next_id.evidence]))
    /\ UNCHANGED <<assets, asset_versions, clock, sess>>

\* create_evidence that also records an AssetVersion for the asset.
CreateEvidenceCommit_AddsVersion(ev) ==
    /\ resp = NoResponse
    /\ EvidenceCreate(ev)
    /\ QueryAsset(ev.asset_id) # Null
    /\ next_id.evidence <= MaxEvidence
    /\ evidence' = evidence \cup {Evidence(next_id.evidence, ev, clock)}
    /\ asset_versions' = asset_versions \cup
          {AssetVersion(next_id.asset_versions + MaxAssets, ev.asset_id,
                        QueryAsset(ev.asset_id).name, QueryAsset(ev.asset_id).owner,
                        "Evidence Logged", clock)}
    /\ next_id' = [next_id EXCEPT !.evidence = @ + 1]
    /\ resp' = Response("create_evidence", HTTP_201_CREATED,
                        Refresh(evidence', [id |-> next_id.evidence]))
    /\ UNCHANGED <<assets, clock, sess>>

\* create_evidence that keeps one Evidence row per asset: the new row takes
\* the place of the asset's earlier ones.
CreateEvidenceCommit_ReplacesEarlier(ev) ==
    /\ resp = NoResponse
    /\ EvidenceCreate(ev)
    /\ QueryAsset(ev.asset_id) # Null
    /\ next_id.evidence <= MaxEvidence
    /\ evidence' = {e \in evidence : e.asset_id # ev.asset_id} \cup
                      {Evidence(next_id.evidence, ev, clock)}
    /\ next_id' = [next_id EXCEPT !.evidence = @ + 1]
    /\ resp' = Response("create_evidence", HTTP_201_CREATED,
                        Refresh(evidence', [id |-> next_id.evidence]))
    /\ UNCHANGED <<assets, asset_versions, clock, sess>>

\* Lines 111-130: the asset exists; db.add(db_evidence); db.commit();
\* db.refresh(db_evidence); return.
CreateEvidenceCommit(ev) ==
    /\ resp = NoResponse
    /\ EvidenceCreate(ev)
    /\ QueryAsset(ev.asset_id) # Null
    /\ next_id.evidence <= MaxEvidence
    /\ evidence' = evidence \cup {Evidence(next_id.evidence, ev, clock)}
    /\ next_id' = [next_id EXCEPT !.evidence = @ + 1]
    /\ resp' = Response("create_evidence", HTTP_201_CREATED,
                        Refresh(evidence', [id |-> next_id.evidence]))
    /\ UNCHANGED <<assets, asset_versions, clock, sess>>

\* db.commit() raises.
CreateEvidenceCommitFail(ev) ==
    /\ resp = NoResponse
    /\ EvidenceCreate(ev)
    /\ QueryAsset(ev.asset_id) # Null
    /\ resp' = Response("create_evidence", HTTP_500_SERVER_ERROR, Null)
    /\ UNCHANGED <<assets, asset_versions, evidence, next_id, clock, sess>>

create_evidence(ev) ==
    \/ CreateEvidenceInvalid(ev)
    \/ CreateEvidenceNotFound(ev)
    \/ CreateEvidenceCommit(ev)
    \/ CreateEvidenceCommitFail(ev)

\* ---- GET /assets/{asset_id}/timeline : get_asset_timeline ----
\* Lines 160-169.
VersionEvent(version) ==
    [event_type |-> "version",
     timestamp |-> version.changed_at,
     description |-> version.change_reason,
     details |-> [name |-> version.name, owner |-> version.owner,
                  version_id |-> version.id]]

\* Lines 173-183.
EvidenceEvent(ev) ==
    [event_type |-> "evidence",
     timestamp |-> ev.timestamp,
     description |-> ev.evidence_type \o ": " \o ev.description,
     details |-> [evidence_type |-> ev.evidence_type, gps_lat |-> ev.gps_lat,
                  gps_lon |-> ev.gps_lon, evidence_id |-> ev.id]]

\* The sort without reverse=True: ascending.
RECURSIVE SortByTimestamp_Ascending(_)
SortByTimestamp_Ascending(timeline) ==
    IF timeline = <<>> THEN <<>>
    ELSE LET rest == SortByTimestamp_Ascending(SubSeq(timeline, 1, Len(timeline) - 1))
             x == timeline[Len(timeline)]
             k == Cardinality({i \in 1..Len(rest) : rest[i].timestamp <= x.timestamp})
         IN SubSeq(rest, 1, k) \o <<x>> \o SubSeq(rest, k + 1, Len(rest))

\* list.sort(key=lambda x: x.timestamp, reverse=True): a stable sort, so
\* events with equal timestamps keep the order they were appended in.
RECURSIVE SortByTimestampDesc(_)
SortByTimestampDesc(timeline) ==
    IF timeline = <<>> THEN <<>>
    ELSE LET rest == SortByTimestampDesc(SubSeq(timeline, 1, Len(timeline) - 1))
             x == timeline[Len(timeline)]
             k == Cardinality({i \in 1..Len(rest) : rest[i].timestamp >= x.timestamp})
         IN SubSeq(rest, 1, k) \o <<x>> \o SubSeq(rest, k + 1, Len(rest))

\* Lines 155-188: version events, then evidence events, then the sort.
BuildTimeline(versions, evidence_records) ==
    SortByTimestampDesc(
        [i \in 1..Len(versions) |-> VersionEvent(versions[i])] \o
        [i \in 1..Len(evidence_records) |-> EvidenceEvent(evidence_records[i])])

\* get_asset_timeline without the existence check of lines 146-147: an
\* unknown asset gets the timeline of its (no) rows.
GetTimelineNotFound_EmptyTimeline(asset_id) ==
    /\ resp = NoResponse
    /\ QueryAsset(asset_id) = Null
    /\ \E versions \in Orderings(VersionsOf(asset_id)),
          evidence_records \in Orderings(EvidenceOf(asset_id)) :
          resp' = Response("get_asset_timeline", HTTP_200_OK,
                           BuildTimeline(versions, evidence_records))
    /\ UNCHANGED <<assets, asset_versions, evidence, next_id, clock, sess>>

\* Lines 142-147: the lookup finds no Asset row, HTTPException 404.
GetTimelineNotFound(asset_id) ==
    /\ resp = NoResponse
    /\ QueryAsset(asset_id) = Null
    /\ resp' = Response("get_asset_timeline", HTTP_404_NOT_FOUND, Null)
    /\ UNCHANGED <<assets, asset_versions, evidence, next_id, clock, sess>>

\* get_asset_timeline that logs the access as an Evidence row.
GetTimeline_LogsAccess(asset_id) ==
    /\ resp = NoResponse
    /\ QueryAsset(asset_id) # Null
    /\ \E versions \in Orderings(VersionsOf(asset_id)),
          evidence_records \in Orderings(EvidenceOf(asset_id)) :
          resp' = Response("get_asset_timeline", HTTP_200_OK,
                           BuildTimeline(versions, evidence_records))
    /\ evidence' = evidence \cup
          {Evidence(next_id.evidence,
                    [ValidEvidence(asset_id) EXCEPT !.evidence_type = "View"], clock)}
    /\ UNCHANGED <<assets, asset_versions, next_id, clock, sess>>

\* Lines 142-188.  The handler's three queries are taken in one step: no
\* request deletes or updates a row and versions are only inserted together
\* with their asset, so a commit that falls between the queries yields the
\* result of a later single-step read.
GetTimeline(asset_id) ==
    /\ resp = NoResponse
    /\ QueryAsset(asset_id) # Null
    /\ \E versions \in Orderings(VersionsOf(asset_id)),
          evidence_records \in Orderings(EvidenceOf(asset_id)) :
          resp' = Response("get_asset_timeline", HTTP_200_OK,
                           BuildTimeline(versions, evidence_records))
    /\ UNCHANGED <<assets, asset_versions, evidence, next_id, clock, sess>>

get_asset_timeline(asset_id) ==
    GetTimelineNotFound(asset_id) \/ GetTimeline(asset_id)

\* ---- GET /assets/ and GET /evidence/ : pagination ----
Min(a, b) == IF a < b THEN a ELSE b

\* .offset(skip).limit(limit).all() on non-negative arguments.
Page(rows, skip, limit) == SubSeq(rows, skip + 1, Min(Len(rows), skip + limit))

\* A negative OFFSET or LIMIT is passed to the store unchecked.  A store
\* that accepts it (SQLite) reads a negative LIMIT as no limit and a
\* negative OFFSET as zero.
LenientPage(rows, skip, limit) ==
    Page(rows, IF skip < 0 THEN 0 ELSE skip, IF limit < 0 THEN Len(rows) ELSE limit)

GetAssets(skip, limit) ==
    /\ resp = NoResponse
    /\ \E rows \in Orderings(assets) :
          resp' = Response("get_assets", HTTP_200_OK, LenientPage(rows, skip, limit))
    /\ UNCHANGED <<assets, asset_versions, evidence, next_id, clock, sess>>

\* A store that rejects a negative OFFSET or LIMIT (PostgreSQL) raises.
GetAssetsError(skip, limit) ==
    /\ resp = NoResponse
    /\ skip < 0 \/ limit < 0
    /\ resp' = Response("get_assets", HTTP_500_SERVER_ERROR, Null)
    /\ UNCHANGED <<assets, asset_versions, evidence, next_id, clock, sess>>

GetAllEvidence(skip, limit) ==
    /\ resp = NoResponse
    /\ \E rows \in Orderings(evidence) :
          resp' = Response("get_all_evidence", HTTP_200_OK, LenientPage(rows, skip, limit))
    /\ UNCHANGED <<assets, asset_versions, evidence, next_id, clock, sess>>

GetAllEvidenceError(skip, limit) ==
    /\ resp = NoResponse
    /\ skip < 0 \/ limit < 0
    /\ resp' = Response("get_all_evidence", HTTP_500_SERVER_ERROR, Null)
    /\ UNCHANGED <<assets, asset_versions, evidence, next_id, clock, sess>>

Next ==
    \/ Respond
    \/ Tick
    \/ \E asset \in AssetInputs : CreateAssetInvalid(asset)
    \/ \E asset \in AssetInputs : CreateAssetFlush(asset)
    \/ \E asset \in AssetInputs : CreateAssetFlushFail(asset)
    \/ \E s \in sess : CreateAssetCommit(s)
    \/ \E s \in sess : CreateAssetCommitFail(s)
    \/ \E asset_id \in AssetIds : GetAssetFound(asset_id)
    \/ \E asset_id \in AssetIds : GetAssetNotFound(asset_id)
    \/ \E ev \in EvidenceInputs : CreateEvidenceInvalid(ev)
    \/ \E ev \in EvidenceInputs : CreateEvidenceNotFound(ev)
    \/ \E ev \in EvidenceInputs : CreateEvidenceCommit(ev)
    \/ \E ev \in EvidenceInputs : CreateEvidenceCommitFail(ev)
    \/ \E asset_id \in AssetIds : GetTimelineNotFound(asset_id)
    \/ \E asset_id \in AssetIds : GetTimeline(asset_id)
    \/ \E page \in PageInputs : GetAssets(page[1], page[2])
    \/ \E page \in PageInputs : GetAssetsError(page[1], page[2])
    \/ \E page \in PageInputs : GetAllEvidence(page[1], page[2])
    \/ \E page \in PageInputs : GetAllEvidenceError(page[1], page[2])

Spec == Init /\ [][Next]_vars

\* ======================= properties =======================
GenesisVersionsOf(asset_id) ==
    {v \in asset_versions : v.asset_id = asset_id /\ v.change_reason = "Genesis Creation"}

\* C1: every committed Asset has exactly one AssetVersion whose asset_id is
\* the asset's id and whose change_reason is "Genesis Creation" (so it has at
\* least one AssetVersion), in every reachable state.
C1_GenesisInvariant ==
    \A a \in assets :
        /\ Cardinality(GenesisVersionsOf(a.id)) = 1
        /\ Cardinality(VersionsOf(a.id)) >= 1

\* Two assets are committed and the last request was a create_asset that
\* failed.
C1_Witness ==
    /\ Cardinality(assets) = 2
    /\ resp.op = "create_asset" /\ resp.status = 500

\* C2: while a create_asset is between its flush and its commit, no other
\* request can see its Asset row or a version of it; in the committed store
\* an Asset and its genesis version are present together or not at all, and
\* no response that shows an asset was produced without its genesis version.
C2_AtomicVisibility ==
    /\ \A s \in sess :
          /\ \A a \in assets : a.id # s.db_asset.id
          /\ \A v \in asset_versions : v.asset_id # s.db_asset.id
    /\ \A id \in AssetIds :
          (\E a \in assets : a.id = id) <=> (GenesisVersionsOf(id) # {})
    /\ (resp.op = "get_asset" /\ resp.status = 200) => GenesisVersionsOf(resp.body.id) # {}
    /\ (resp.op = "get_assets" /\ resp.status = 200) =>
          \A i \in 1..Len(resp.body) : GenesisVersionsOf(resp.body[i].id) # {}
    /\ (resp.op = "create_evidence" /\ resp.status = 201) =>
          GenesisVersionsOf(resp.body.asset_id) # {}
    /\ (resp.op = "get_asset_timeline" /\ resp.status = 200) =>
          \E i \in 1..Len(resp.body) :
              resp.body[i].event_type = "version" /\
              resp.body[i].description = "Genesis Creation"

\* A create_asset flushed its Asset at clock 0 and has not committed; at
\* clock 1, inside that window, another request read the timeline of the
\* asset committed before.
C2_Witness ==
    /\ \E s \in sess : s.db_asset.created_at = 0 /\ s.db_asset.id = 2
    /\ clock = 1
    /\ resp.op = "get_asset_timeline" /\ resp.status = 200

\* C3: a create_asset that fails at the flush or at the version insert /
\* commit leaves the committed store as it was, and none of the rows of the
\* attempt (the flushed Asset, a version referencing it) is in the store or
\* in a session afterwards.
C3_FailedCreateLeavesNothing ==
    [][(resp'.op = "create_asset" /\ resp'.status = 500) =>
          /\ assets' = assets /\ asset_versions' = asset_versions /\ evidence' = evidence
          /\ \A s \in sess \ sess' :
                /\ \A a \in assets' : a.id # s.db_asset.id
                /\ \A v \in asset_versions' : v.asset_id # s.db_asset.id
          /\ sess' \subseteq sess]_vars

\* A create_asset got an id from the flush and then failed; nothing is
\* committed and no request is in flight.
C3_Witness ==
    /\ resp.op = "create_asset" /\ resp.status = 500
    /\ next_id.assets > 1
    /\ assets = {} /\ asset_versions = {}
    /\ sess = {}

\* The inputs the specification calls valid.
ValidInput(asset) ==
    /\ asset.name # "" /\ asset.owner # ""
    /\ asset.location_lat >= -90 /\ asset.location_lat <= 90
    /\ asset.location_lon >= -180 /\ asset.location_lon <= 180
    /\ asset.size_hectares > 0

\* C4: a successful create_asset adds exactly one Asset and exactly one
\* AssetVersion; the version is the genesis of the new asset and copies the
\* input name and owner; the response carries the assigned id.
C4_CreateAssetPostcondition ==
    [][(resp'.op = "create_asset" /\ resp'.status = 201) =>
          LET newAssets == assets' \ assets
              newVersions == asset_versions' \ asset_versions
          IN /\ assets \subseteq assets' /\ asset_versions \subseteq asset_versions'
             /\ Cardinality(newAssets) = 1 /\ Cardinality(newVersions) = 1
             /\ evidence' = evidence
             /\ Cardinality(sess \ sess') = 1 /\ sess' \subseteq sess
             /\ \A s \in sess \ sess', a \in newAssets, v \in newVersions :
                   /\ ValidInput(s.asset)
                   /\ a.id = s.db_asset.id
                   /\ \A b \in assets : b.id # a.id
                   /\ a.name = s.asset.name /\ a.owner = s.asset.owner
                   /\ v.change_reason = "Genesis Creation"
                   /\ v.asset_id = a.id
                   /\ v.name = s.asset.name /\ v.owner = s.asset.owner
                   /\ resp'.body = a]_vars

\* The second asset was just created and returned.
C4_Witness ==
    /\ resp.op = "create_asset" /\ resp.status = 201
    /\ resp.body.id = 2 /\ resp.body \in assets
    /\ Cardinality(asset_versions) = 2

\* tl holds exactly one event per AssetVersion and per Evidence row of
\* asset_id in the current store, and nothing else.
IsTimelineOf(tl, asset_id) ==
    /\ Len(tl) = Cardinality(VersionsOf(asset_id)) + Cardinality(EvidenceOf(asset_id))
    /\ \A v \in VersionsOf(asset_id) :
          Cardinality({i \in 1..Len(tl) :
              /\ tl[i].event_type = "version"
              /\ tl[i].details.version_id = v.id
              /\ tl[i].timestamp = v.changed_at
              /\ tl[i].description = v.change_reason}) = 1
    /\ \A e \in EvidenceOf(asset_id) :
          Cardinality({i \in 1..Len(tl) :
              /\ tl[i].event_type = "evidence"
              /\ tl[i].details.evidence_id = e.id
              /\ tl[i].timestamp = e.timestamp}) = 1

SortedDescending(tl) ==
    \A i \in 1..(Len(tl) - 1) : tl[i].timestamp >= tl[i + 1].timestamp

\* C5: get_timeline of an existing asset returns exactly one event per
\* AssetVersion row and per Evidence row of that asset, none of another
\* asset, sorted by timestamp descending.
C5_TimelineComplete ==
    [][resp'.op = "get_asset_timeline" =>
          \A asset_id \in AssetIds :
              GetTimeline(asset_id) =>
                  /\ resp'.status = 200
                  /\ IsTimelineOf(resp'.body, asset_id)
                  /\ SortedDescending(resp'.body)]_vars

\* A timeline of three events with different timestamps was returned while
\* another asset with its own rows exists.
C5_Witness ==
    /\ resp.op = "get_asset_timeline" /\ resp.status = 200
    /\ Len(resp.body) = 3
    /\ resp.body[1].timestamp > resp.body[3].timestamp
    /\ Cardinality(assets) = 2

NewestEvidenceId(asset_id) ==
    CHOOSE n \in {e.id : e \in EvidenceOf(asset_id)} :
        \A e \in EvidenceOf(asset_id) : e.id <= n

\* C6: for an asset with one genesis version and two evidence entries
\* get_timeline returns 3 events sorted descending, the most recently
\* inserted evidence first and the genesis event last, whatever timestamps
\* the clock gave the rows (equal ones included).
C6_NewestEvidenceFirst ==
    [][resp'.op = "get_asset_timeline" =>
          \A asset_id \in AssetIds :
              (/\ GetTimeline(asset_id)
               /\ Cardinality(VersionsOf(asset_id)) = 1
               /\ Cardinality(EvidenceOf(asset_id)) = 2) =>
                  /\ Len(resp'.body) = 3
                  /\ SortedDescending(resp'.body)
                  /\ resp'.body[1].event_type = "evidence"
                  /\ resp'.body[1].details.evidence_id = NewestEvidenceId(asset_id)
                  /\ resp'.body[3].event_type = "version"]_vars

EvidenceReferencesAsset ==
    \A e \in evidence : \E a \in assets : a.id = e.asset_id

NoAssetRow(asset_id) == \A a \in assets : a.id # asset_id

ValidEvidenceInput(ev) ==
    /\ ev.asset_id > 0
    /\ ev.evidence_type # "" /\ ev.description # ""
    /\ ev.gps_lat >= -90 /\ ev.gps_lat <= 90
    /\ ev.gps_lon >= -180 /\ ev.gps_lon <= 180

C8_LogEvidenceFrame ==
    [][(resp'.op = "create_evidence" /\ resp'.status = 201) =>
          \A ev \in EvidenceInputs :
              create_evidence(ev) =>
                  /\ assets' = assets
                  /\ asset_versions' = asset_versions
                  /\ evidence \subseteq evidence'
                  /\ Cardinality(evidence' \ evidence) = 1
                  /\ \A e \in evidence' \ evidence :
                        /\ e.asset_id = ev.asset_id
                        /\ \E a \in assets : a.id = e.asset_id
                        /\ resp'.body = e]_vars

\* The second evidence row was just logged.
C8_Witness ==
    /\ resp.op = "create_evidence" /\ resp.status = 201
    /\ resp.body.id = 2 /\ resp.body \in evidence
    /\ asset_versions # {}

\* C9: create_asset with an empty name or owner, a latitude outside
\* [-90,90], a longitude outside [-180,180] or a size <= 0 is answered 422
\* before any insert: the store, the sessions and the id counters are
\* unchanged.  (Every step of create_asset answers the request or opens or
\* closes a session, so only those steps are examined.)
C9_InvalidCreateRejected ==
    [][(resp'.op = "create_asset" \/ sess' # sess) =>
          \A asset \in AssetInputs :
              (~ValidInput(asset) /\ create_asset(asset)) =>
                  /\ resp'.op = "create_asset" /\ resp'.status = 422
                  /\ assets' = assets /\ asset_versions' = asset_versions
                  /\ evidence' = evidence
                  /\ sess' = sess /\ next_id' = next_id]_vars

\* A create_asset was just rejected in a store that already holds an asset.
C9_Witness ==
    /\ resp.op = "create_asset" /\ resp.status = 422
    /\ assets # {}

\* C10: get_timeline, for an existing or a missing asset_id, leaves the
\* Asset, AssetVersion and Evidence rows exactly as they were.
C10_TimelinePureRead ==
    [][resp'.op = "get_asset_timeline" =>
          \A asset_id \in AssetIds :
              get_asset_timeline(asset_id) =>
                  /\ assets' = assets
                  /\ asset_versions' = asset_versions
                  /\ evidence' = evidence]_vars

\* A timeline with evidence was returned.
C10_Witness ==
    /\ resp.op = "get_asset_timeline" /\ resp.status = 200
    /\ Len(resp.body) >= 2
    /\ evidence # {}

\* C11: get_timeline with an asset_id that has no Asset row is answered with
\* a not-found error (404) and never with a sequence of events, empty or
\* not, whatever AssetVersion and Evidence rows other assets have.
C11_TimelineNotFound ==
    [][resp'.op = "get_asset_timeline" =>
          \A asset_id \in AssetIds :
              (NoAssetRow(asset_id) /\ get_asset_timeline(asset_id)) =>
                  /\ resp'.status = 404
                  /\ resp'.body = Null
                  /\ resp'.body # <<>>]_vars

\* get_timeline of an id without an Asset row was just answered 404 while
\* another asset has its version and evidence; the id was handed out to a
\* create_asset that has not committed.
C11_Witness ==
    /\ resp.op = "get_asset_timeline" /\ resp.status = 404
    /\ asset_versions # {} /\ evidence # {}
    /\ \E s \in sess : NoAssetRow(s.db_asset.id)

\* The rows of a table in insertion (id) order.
InIdOrder(rows) ==
    CHOOSE f \in Orderings(rows) : \A i, j \in 1..Len(f) : i < j => f[i].id < f[j].id

\* What the list operations are specified to answer for (skip, limit) over
\* the rows of a table.
IsSpecifiedPage(r, rows, skip, limit) ==
    IF skip < 0 \/ limit < 0
    THEN r.status = 422 /\ r.body = Null
    ELSE r.status = 200 /\ r.body = Page(InIdOrder(rows), skip, limit)

\* C12: list_assets and list_evidence with offset < 0 or limit < 0 fail with
\* a validation error (422) and return no rows; with non-negative offset and
\* limit they return the rows in insertion (id) order, clamped to the
\* available range.
C12_ListPaging ==
    [][(resp'.op = "get_assets" \/ resp'.op = "get_all_evidence") =>
          \A page \in PageInputs :
              /\ (GetAssets(page[1], page[2]) \/ GetAssetsError(page[1], page[2])) =>
                    IsSpecifiedPage(resp', assets, page[1], page[2])
              /\ (GetAllEvidence(page[1], page[2]) \/ GetAllEvidenceError(page[1], page[2])) =>
                    IsSpecifiedPage(resp', evidence, page[1], page[2])]_vars

\* Every row of rows is in rows_next with the same fields, and no row of
\* rows_next has the id of a row of rows with other fields.
RowsKept(rows, rows_next) ==
    /\ rows \subseteq rows_next
    /\ \A r \in rows : \A q \in rows_next : q.id = r.id => q = r

\* C13: history is append-only.  In every step of every operation each
\* committed AssetVersion and Evidence row stays in the store with all its
\* fields, and each committed Asset stays with the id and created_at it was
\* created with.
C13_AppendOnly ==
    [][/\ RowsKept(asset_versions, asset_versions')
       /\ RowsKept(evidence, evidence')
       /\ \A a \in assets :
             /\ \E b \in assets' : b.id = a.id
             /\ \A b \in assets' : b.id = a.id => b.created_at = a.created_at]_vars

\* Rows written at clock 0 (an asset, its genesis version, an evidence) are
\* in the store next to rows appended at clock 1, after a later request.
C13_Witness ==
    /\ \E a \in assets : a.created_at = 0 /\
          \E v \in asset_versions : v.asset_id = a.id /\ v.changed_at = 0
    /\ \E e \in evidence : e.timestamp = 0
    /\ \E v \in asset_versions : v.changed_at = 1
    /\ \E e \in evidence : e.timestamp = 1
    /\ resp.op = "get_asset_timeline"

\* The sequences get_timeline can answer for asset_id in the current store,
\* one per order in which the store can return the rows.
TimelinesOf(asset_id) ==
    {BuildTimeline(versions, evidence_records) :
        versions \in Orderings(VersionsOf(asset_id)),
        evidence_records \in Orderings(EvidenceOf(asset_id))}

\* C14: for a fixed store state any two get_timeline calls on the same asset
\* return the same sequence of events, also when events carry an identical
\* timestamp: the order of tied events does not depend on the order in which
\* the store returns the rows.
C14_TimelineDeterministic ==
    \A a \in assets : Cardinality(TimelinesOf(a.id)) = 1
====
